---- MODULE Spec2Model ----
(***************************************************************************)
(* The test-steps timeline builder, useGetTestSections                     *)
(* (src/unnamed/part_000, lines 131-278): the steps of one test case, the  *)
(* start/end annotations, the network summaries and the navigation         *)
(* annotations are merged into three ordered buckets, beforeEach, testBody *)
(* and afterEach.                                                          *)
(*                                                                         *)
(* An optional value (a?.time, n.end) is a sequence of length 0 or 1.      *)
(* The enqueue annotation is copied into the step event and read by no     *)
(* later line of the function; it is left out.                             *)
(***************************************************************************)
EXTENDS Integers, Sequences, FiniteSets, TLC

\* Bounds of the checked input space.
MaxEvents == 3      \* input records: steps, summaries and navigation annotations
MaxTime == 2        \* times are 0..MaxTime
StepDuration == 3   \* the declared duration of the steps of Init

VARIABLES
  startTime,          \* testCaseStartTime
  steps,              \* TestStep[]
  annotationsStart,   \* start annotations of the test title
  annotationsEnd,     \* end annotations of the test title
  summaries,          \* partialRequestsToCompleteSummaries(requests, events, ..)
  navigationEvents,   \* navigation annotations of the test title
  allEvents,          \* the sorted composite events
  idx,                \* position of the for-of loop in allEvents
  beforeEach, testBody, afterEach,
  currentStack,       \* which bucket currentStack points to
  nonStepStack,       \* the pending side-buffer
  pc

inputs == <<startTime, steps, annotationsStart, annotationsEnd, summaries, navigationEvents>>
vars == <<startTime, steps, annotationsStart, annotationsEnd, summaries, navigationEvents,
          allEvents, idx, beforeEach, testBody, afterEach, currentStack, nonStepStack, pc>>

Undefined == <<>>
NoHook == "undefined"
Times == 0..MaxTime
\* Infinity is greater than every time of the model.
Infinity == 4 * MaxTime + 4

Range(s) == {s[k] : k \in DOMAIN s}

RECURSIVE SelectFirst(_, _, _)
SelectFirst(s, id, k) ==
  IF k > Len(s) THEN Undefined
  ELSE IF s[k].message.id = id THEN <<s[k]>>
  ELSE SelectFirst(s, id, k + 1)

\* Array.prototype.find(a => a.message.id === id)
Find(anns, id) == SelectFirst(anns, id, 1)

\* a?.time ?? dflt
TimeOr(a, dflt) == IF a = Undefined THEN dflt ELSE a[1].time

MathMin(a, b) == IF a < b THEN a ELSE b
MathMax(a, b) == IF a > b THEN a ELSE b

\* s.duration || 1
DurationOf(s) == IF s.duration = 0 THEN 1 ELSE s.duration

\* Mutant of AbsoluteStartTime: a failed assert keeps its start.
AbsoluteStartTimeKept(s, start0, end0) == start0

\* Lines 159-168: the start of a step, given its annotated or relative start
\* and its provisional end.
AbsoluteStartTime(s, start0, end0) ==
  IF s.name = "assert" /\ s.error THEN end0 - 1 ELSE start0

\* Lines 159-168: the end of a step before line 178 takes one off.
AbsoluteEndTime(s, start0, end0) ==
  IF s.name = "assert" /\ ~s.error THEN start0 + 1 ELSE end0

\* The callback of steps.map: the step event of step s at index i (0-based).
StepEvent(s, i) ==
  LET annEnd == Find(annotationsEnd, s.id)
      annStart == Find(annotationsStart, s.id)
      duration0 == DurationOf(s)
      start0 == TimeOr(annStart, startTime + s.relativeStartTime)
      end0 == TimeOr(annEnd, start0 + duration0)
      isAssert == s.name = "assert"
      absoluteStartTime == AbsoluteStartTime(s, start0, end0)
      absoluteEndTime == AbsoluteEndTime(s, start0, end0)
      annotations == [start |-> IF isAssert /\ s.error THEN annEnd ELSE annStart,
                      end |-> IF isAssert /\ ~s.error THEN annStart ELSE annEnd]
  IN [time |-> absoluteStartTime,
      type |-> "step",
      event |-> [id |-> s.id, name |-> s.name, error |-> s.error, hook |-> s.hook,
                 absoluteStartTime |-> absoluteStartTime,
                 absoluteEndTime |-> absoluteEndTime - 1,
                 duration |-> IF isAssert THEN 1 ELSE duration0,
                 index |-> i,
                 annotations |-> annotations]]

stepsByTime == [k \in 1..Len(steps) |-> StepEvent(steps[k], k - 1)]

RECURSIVE ReduceTimes(_, _, _)
ReduceTimes(evs, k, acc) ==
  IF k > Len(evs) THEN acc
  ELSE ReduceTimes(evs, k + 1,
                   [min |-> MathMin(acc.min, evs[k].event.absoluteStartTime),
                    max |-> MathMax(acc.max, evs[k].event.absoluteEndTime)])

times == ReduceTimes(stepsByTime, 1, [min |-> Infinity, max |-> 0])

isDuringSteps(time) == time >= times.min /\ time < times.max

\* Mutant of KeepSummary: the test of the cause left out.
KeepSummaryAnyCause(n) ==
  /\ n.end # Undefined
  /\ isDuringSteps(n.end[1])

KeepSummary(n) ==
  /\ n.cause = "xhr" \/ n.cause = "fetch"
  /\ n.end # Undefined
  /\ isDuringSteps(n.end[1])

NetworkEventOf(n) == [time |-> n.end[1], type |-> "network", event |-> n]

networkDataByTime ==
  LET kept == SelectSeq(summaries, KeepSummary)
  IN [k \in 1..Len(kept) |-> NetworkEventOf(kept[k])]

KeepNavigation(e) == isDuringSteps(e.time)

NavigationEventOf(n) == [time |-> n.time, type |-> "navigation", event |-> n.message]

navigationEventsByTime ==
  LET kept == SelectSeq(navigationEvents, KeepNavigation)
  IN [k \in 1..Len(kept) |-> NavigationEventOf(kept[k])]

\* The comparator handed to Array.prototype.sort.
Compare(a, b) ==
  IF a.type = "step" /\ b.type = "step" /\ a.event.hook # b.event.hook
    THEN IF a.event.hook = "beforeEach" /\ b.event.hook # "beforeEach" THEN -1
         ELSE IF a.event.hook = "afterEach" /\ b.event.hook # "afterEach" THEN 1
         ELSE a.time - b.time
    ELSE a.time - b.time

\* ECMAScript's "consistent comparison function for a set of values".
ConsistentComparator(S) ==
  /\ \A a \in S : Compare(a, a) = 0
  /\ \A a, b \in S : Compare(a, b) = 0 => Compare(b, a) = 0
  /\ \A a, b, c \in S :
       /\ Compare(a, b) = 0 /\ Compare(b, c) = 0 => Compare(a, c) = 0
       /\ Compare(a, b) < 0 /\ Compare(b, c) < 0 => Compare(a, c) < 0
       /\ Compare(a, b) > 0 /\ Compare(b, c) > 0 => Compare(a, c) > 0

PermutationsOf(n) == {p \in [1..n -> 1..n] : \A x, y \in 1..n : x # y => p[x] # p[y]}

StableSorted(s, p) ==
  \A x, y \in 1..Len(s) :
    x < y => \/ Compare(s[p[x]], s[p[y]]) < 0
             \/ Compare(s[p[x]], s[p[y]]) = 0 /\ p[x] < p[y]

\* Array.prototype.sort: the stable sorted order when the comparator is
\* consistent for the elements, an implementation-defined order otherwise.
SortOutcomes(s) ==
  LET ps == IF ConsistentComparator(Range(s))
              THEN {p \in PermutationsOf(Len(s)) : StableSorted(s, p)}
              ELSE PermutationsOf(Len(s))
  IN {[k \in 1..Len(s) |-> s[p[k]]] : p \in ps}

\* [...networkDataByTime, ...stepsByTime, ...navigationEventsByTime]
Concatenated == networkDataByTime \o stepsByTime \o navigationEventsByTime

Bucket(name) ==
  IF name = "beforeEach" THEN beforeEach
  ELSE IF name = "afterEach" THEN afterEach
  ELSE testBody

\* Mutant of TargetStack: a plain else in place of else if (!e.event.hook).
TargetStackElse(e, cur) ==
  IF e.event.hook = "beforeEach" THEN "beforeEach"
  ELSE IF e.event.hook = "afterEach" THEN "afterEach"
  ELSE "testBody"

\* The bucket a step's hook selects; cur when the hook selects none.
TargetStack(e, cur) ==
  IF e.event.hook = "beforeEach" THEN "beforeEach"
  ELSE IF e.event.hook = "afterEach" THEN "afterEach"
  ELSE IF e.event.hook = NoHook THEN "testBody"
  ELSE cur

\* Mutant of StepAppend: currentStack.push(e) moved into the if block.
StepAppendInsideIf(e, pending, stackChanged) ==
  IF ~stackChanged THEN pending \o <<e>> ELSE pending

\* Mutant of StepAppend: the pending events flushed before the step whether
\* or not the bucket changed.
StepAppendBefore(e, pending, stackChanged) == pending \o <<e>>

\* What one step appends to its bucket: the pending events before the step
\* when the bucket did not change, and after it when it did.
StepAppend(e, pending, stackChanged) ==
  LET flushedBefore == IF ~stackChanged THEN pending ELSE <<>>
      stillPending == IF ~stackChanged THEN <<>> ELSE pending
  IN flushedBefore \o <<e>> \o stillPending

\* Mutant of Queues: the test of line 251 left out.
QueuesAlways(stack) == TRUE

\* Mutant of Queues: the test of line 251 asks for more than one entry.
QueuesWhenLong(stack) == Len(stack) > 1

\* Whether a non-step event is queued: currentStack.length !== 0
Queues(stack) == Len(stack) # 0

\* Mutant of TailStack: the buckets tried in the opposite order.
TailStackBeforeFirst ==
  IF Len(beforeEach) # 0 THEN "beforeEach"
  ELSE IF Len(testBody) # 0 THEN "testBody"
  ELSE IF Len(afterEach) # 0 THEN "afterEach"
  ELSE "none"

\* The bucket that takes the events left in nonStepStack after the loop.
TailStack ==
  IF Len(afterEach) # 0 THEN "afterEach"
  ELSE IF Len(testBody) # 0 THEN "testBody"
  ELSE IF Len(beforeEach) # 0 THEN "beforeEach"
  ELSE "none"

Hooks == {"beforeEach", "afterEach", NoHook, "before"}

\* The lists of n records drawn from S, each given its position as id.
WithIds(S, n) == {[k \in 1..n |-> [id |-> k] @@ f[k]] : f \in [1..n -> S]}

\* Steps that differ in hook and start; each declares the duration StepDuration.
PlainSteps(n) ==
  WithIds([name : {"get"}, error : {FALSE}, hook : Hooks,
           relativeStartTime : Times, duration : {StepDuration}], n)

PlainSummaries(n) == WithIds([cause : {"xhr"}, end : {<<t>> : t \in Times}], n)

Navigations(n) ==
  {[k \in 1..n |-> [time |-> f[k], message |-> [id |-> k]]] : f \in [1..n -> Times]}

\* Steps that differ in name, error, start and duration, none in a hook: a
\* step starts at 0 or MaxTime and declares no duration or StepDuration.
StepKinds ==
  {[name |-> "get", error |-> FALSE], [name |-> "assert", error |-> FALSE],
   [name |-> "assert", error |-> TRUE]}

TimedSteps(n) ==
  {[k \in 1..n |-> [id |-> k, hook |-> NoHook, relativeStartTime |-> f[k][2],
                    duration |-> f[k][3]] @@ f[k][1]] :
     f \in [1..n -> StepKinds \X {0, MaxTime} \X {0, StepDuration}]}

\* Summaries of any cause, finished or not.
AnySummaries(n) ==
  WithIds([cause : {"xhr", "fetch", "img"}, end : {Undefined} \cup {<<t>> : t \in Times}], n)

\* n annotations, each of one of the first ns steps.
Annotations(n, ns) ==
  {[k \in 1..n |-> [message |-> [id |-> f[k][1]], time |-> f[k][2]]] :
     f \in [1..n -> (1..ns) \X Times]}

Start ==
  /\ allEvents = <<>>
  /\ idx = 1
  /\ beforeEach = <<>>
  /\ testBody = <<>>
  /\ afterEach = <<>>
  /\ currentStack = "beforeEach"
  /\ nonStepStack = <<>>
  /\ pc = "sort"

Init ==
  /\ startTime = 0
  /\ \E ns, nn, nv \in 0..MaxEvents :
       /\ ns + nn + nv <= MaxEvents
       /\ steps \in PlainSteps(ns)
       /\ summaries \in PlainSummaries(nn)
       /\ navigationEvents \in Navigations(nv)
  /\ annotationsStart = <<>>
  /\ annotationsEnd = <<>>
  /\ Start

InitResolve ==
  /\ startTime = 0
  /\ \E ns, nn, nv, na, ne \in 0..MaxEvents :
       /\ ns + nn + nv + na + ne <= MaxEvents
       /\ steps \in TimedSteps(ns)
       /\ summaries \in AnySummaries(nn)
       /\ navigationEvents \in Navigations(nv)
       /\ annotationsStart \in Annotations(na, ns)
       /\ annotationsEnd \in Annotations(ne, ns)
  /\ Start

\* Lines 148-221: the step events, the window, the filters and the sort.
Sort ==
  /\ pc = "sort"
  /\ allEvents' \in SortOutcomes(Concatenated)
  /\ pc' = "loop"
  /\ UNCHANGED <<inputs, idx, beforeEach, testBody, afterEach, currentStack, nonStepStack>>

\* Lines 231-249: one iteration of the loop on a step event.
LoopStep ==
  /\ pc = "loop"
  /\ idx <= Len(allEvents)
  /\ allEvents[idx].type = "step"
  /\ LET e == allEvents[idx]
         target == TargetStack(e, currentStack)
         stackChanged == target # currentStack
         appended == StepAppend(e, nonStepStack, stackChanged)
     IN /\ currentStack' = target
        /\ beforeEach' = IF target = "beforeEach" THEN beforeEach \o appended ELSE beforeEach
        /\ testBody' = IF target = "testBody" THEN testBody \o appended ELSE testBody
        /\ afterEach' = IF target = "afterEach" THEN afterEach \o appended ELSE afterEach
  /\ nonStepStack' = <<>>
  /\ idx' = idx + 1
  /\ UNCHANGED <<inputs, allEvents, pc>>

\* Lines 250-254: one iteration of the loop on a network or navigation event.
LoopNonStep ==
  /\ pc = "loop"
  /\ idx <= Len(allEvents)
  /\ allEvents[idx].type # "step"
  /\ nonStepStack' = IF Queues(Bucket(currentStack))
                       THEN Append(nonStepStack, allEvents[idx])
                       ELSE nonStepStack
  /\ idx' = idx + 1
  /\ UNCHANGED <<inputs, allEvents, beforeEach, testBody, afterEach, currentStack, pc>>

\* Lines 257-267: the events left in nonStepStack, and the return.
Return ==
  /\ pc = "loop"
  /\ idx > Len(allEvents)
  /\ LET target == IF Len(nonStepStack) # 0 THEN TailStack ELSE "none"
     IN /\ beforeEach' = IF target = "beforeEach" THEN beforeEach \o nonStepStack ELSE beforeEach
        /\ testBody' = IF target = "testBody" THEN testBody \o nonStepStack ELSE testBody
        /\ afterEach' = IF target = "afterEach" THEN afterEach \o nonStepStack ELSE afterEach
  /\ pc' = "done"
  /\ UNCHANGED <<inputs, allEvents, idx, currentStack, nonStepStack>>

Next == Sort \/ LoopStep \/ LoopNonStep \/ Return

Spec == Init /\ [][Next]_vars

SpecResolve == InitResolve /\ [][Next]_vars

(***************************************************************************)
(* The claims.                                                             *)
(***************************************************************************)
AllBuckets == beforeEach \o testBody \o afterEach

Positions(b, Test(_)) == {k \in DOMAIN b : Test(b[k])}

IsStep(e) == e.type = "step"
IsNonStep(e) == e.type # "step"

Occurrences(e) == Cardinality({k \in DOMAIN AllBuckets : AllBuckets[k] = e})

\* The events that survive filtering: every step, and the network and
\* navigation events the filters keep.
Retained == Range(Concatenated)

\* C1: each input step is a step event of the buckets exactly once: during
\* the loop the buckets hold as many step events as the loop has passed, and
\* at the return as many as there are input steps, one for each index.
C1_EveryStepOnce ==
  /\ pc = "loop" =>
       Cardinality(Positions(AllBuckets, IsStep))
         = Cardinality(Positions(SubSeq(allEvents, 1, idx - 1), IsStep))
  /\ pc = "done" =>
       /\ Cardinality(Positions(AllBuckets, IsStep)) = Len(steps)
       /\ \A i \in 1..Len(steps) :
            Cardinality({k \in DOMAIN AllBuckets :
                           IsStep(AllBuckets[k]) /\ AllBuckets[k].event.index = i - 1}) = 1

\* C1 witness: a return with two steps or more, one of them in a hook that is
\* neither beforeEach nor afterEach, and a non-step event in a bucket.
C1_Witness ==
  /\ pc = "done"
  /\ Len(steps) >= 2
  /\ \E k \in DOMAIN steps : steps[k].hook = "before"
  /\ Positions(AllBuckets, IsNonStep) # {}

\* C2 as claimed: at the return every event that survives filtering is in the
\* buckets exactly once.
C2_Original == pc = "done" => \A e \in Retained : Occurrences(e) = 1

PositionOf(e) == CHOOSE k \in DOMAIN allEvents : allEvents[k] = e

PrecedesEverySortedStep(e) ==
  \A j \in DOMAIN allEvents : IsStep(allEvents[j]) => PositionOf(e) < j

\* C2 amended: at the return every step is in the buckets exactly once, and a
\* surviving network or navigation event is in the buckets exactly once
\* unless the sort placed it before every step, and then it is in none.
C2_RetainedOnceUnlessLeading ==
  pc = "done" =>
    \A e \in Retained :
      Occurrences(e) = IF IsNonStep(e) /\ PrecedesEverySortedStep(e) THEN 0 ELSE 1

\* C2 witness: a return where one surviving non-step event is in a bucket
\* and another, sorted before every step, is in none.
C2_Witness ==
  /\ pc = "done"
  /\ \E e \in Retained : IsNonStep(e) /\ Occurrences(e) = 1
  /\ \E e \in Retained : IsNonStep(e) /\ Occurrences(e) = 0

Buckets == {beforeEach, testBody, afterEach}

\* C3 as claimed: in every bucket an earlier event has a sort time less than
\* or equal to that of a later one, unless both are steps with different
\* hooks.
C3_BucketsInTimeOrder ==
  \A b \in Buckets :
    \A x, y \in DOMAIN b :
      x < y => \/ b[x].time <= b[y].time
               \/ IsStep(b[x]) /\ IsStep(b[y]) /\ b[x].event.hook # b[y].event.hook

EndsWith(b, suffix) ==
  /\ Len(b) >= Len(suffix)
  /\ SubSeq(b, Len(b) - Len(suffix) + 1, Len(b)) = suffix

\* The loop is at a step while events are pending.
StepMeetsPending ==
  /\ pc = "loop"
  /\ idx <= Len(allEvents)
  /\ IsStep(allEvents[idx])
  /\ nonStepStack # <<>>

SetMin(S) == CHOOSE x \in S : \A y \in S : x <= y
SetMax(S) == CHOOSE x \in S : \A y \in S : x >= y

\* The window as the claims state it: from the least start of a step to the
\* greatest end of a step before line 178 takes one off.
ClaimedWindowMin ==
  IF steps = <<>> THEN Infinity
  ELSE SetMin({stepsByTime[k].event.absoluteStartTime : k \in DOMAIN steps})

ClaimedWindowMax ==
  IF steps = <<>> THEN 0
  ELSE SetMax({0} \cup {stepsByTime[k].event.absoluteEndTime + 1 : k \in DOMAIN steps})

InClaimedWindow(t) == ClaimedWindowMin <= t /\ t < ClaimedWindowMax

NavigationPassed(k) ==
  \E j \in DOMAIN allEvents :
    /\ allEvents[j].type = "navigation"
    /\ allEvents[j].event = navigationEvents[k].message

SummaryPassed(k) ==
  \E j \in DOMAIN allEvents :
    /\ allEvents[j].type = "network"
    /\ allEvents[j].event = summaries[k]

\* C5 as claimed: a navigation annotation, or an xhr/fetch summary with an
\* end, passes the filter exactly when its time t has
\* windowMin <= t < windowMax, windowMax being the greatest provisional end.
C5_Original ==
  pc # "sort" =>
    /\ \A k \in DOMAIN navigationEvents :
         NavigationPassed(k) <=> InClaimedWindow(navigationEvents[k].time)
    /\ \A k \in DOMAIN summaries :
         summaries[k].cause \in {"xhr", "fetch"} /\ summaries[k].end # Undefined =>
           (SummaryPassed(k) <=> InClaimedWindow(summaries[k].end[1]))

\* C6: a bucket never holds a network event whose cause is not xhr or fetch,
\* whose end is undefined or outside the window, nor a navigation event
\* whose time is outside the window; with no steps the buckets are empty.
C6_BucketsHoldOnlyFiltered ==
  /\ \A b \in Buckets :
       \A k \in DOMAIN b :
         /\ b[k].type = "network" =>
              /\ b[k].event.cause \in {"xhr", "fetch"}
              /\ b[k].event.end # Undefined
              /\ InClaimedWindow(b[k].event.end[1])
         /\ b[k].type = "navigation" => InClaimedWindow(b[k].time)
  /\ steps = <<>> => AllBuckets = <<>>

\* C6 witness: a return where a bucket holds a network event while another
\* summary did not pass the filter.
C6_Witness ==
  /\ pc = "done"
  /\ \E k \in DOMAIN AllBuckets : AllBuckets[k].type = "network"
  /\ \E k \in DOMAIN summaries : ~SummaryPassed(k)

BucketNames == {"beforeEach", "testBody", "afterEach"}

HolderOf(e) == CHOOSE n \in BucketNames : e \in Range(Bucket(n))

\* The bucket that is current when the loop reaches position j: the bucket
\* of the nearest step before j, beforeEach when there is none.
CurrentAt(j) ==
  LET before == {i \in 1..(j - 1) : IsStep(allEvents[i])}
  IN IF before = {} THEN "beforeEach" ELSE HolderOf(allEvents[SetMax(before)])

\* C7: a step the loop has passed is in the bucket its hook names, beforeEach
\* for beforeEach, afterEach for afterEach, testBody for no hook, and for any
\* other hook in the bucket that was current when the loop reached it.
C7_StepsRoutedByHook ==
  \A j \in 1..(idx - 1) :
    IsStep(allEvents[j]) =>
      LET e == allEvents[j]
          expected == IF e.event.hook = "beforeEach" THEN "beforeEach"
                      ELSE IF e.event.hook = "afterEach" THEN "afterEach"
                      ELSE IF e.event.hook = NoHook THEN "testBody"
                      ELSE CurrentAt(j)
      IN /\ e \in Range(Bucket(expected))
         /\ \A n \in BucketNames \ {expected} : e \notin Range(Bucket(n))

\* C7 witness: a return with a step in beforeEach and a step of another hook
\* outside beforeEach.
C7_Witness ==
  /\ pc = "done"
  /\ beforeEach # <<>>
  /\ \E k \in DOMAIN AllBuckets :
       /\ IsStep(AllBuckets[k])
       /\ AllBuckets[k].event.hook = "before"
       /\ AllBuckets[k] \notin Range(beforeEach)

\* C8: whenever events are pending a bucket is non-empty, and the events
\* pending after the loop are appended in queued order to afterEach if it is
\* non-empty, else to testBody if it is non-empty, else to beforeEach.
C8_TrailingPendingKept ==
  [][/\ (nonStepStack # <<>> => AllBuckets # <<>>)'
     /\ pc = "loop" /\ pc' = "done" /\ nonStepStack # <<>> =>
          IF afterEach # <<>>
            THEN /\ afterEach' = afterEach \o nonStepStack
                 /\ UNCHANGED <<beforeEach, testBody>>
          ELSE IF testBody # <<>>
            THEN /\ testBody' = testBody \o nonStepStack
                 /\ UNCHANGED <<beforeEach, afterEach>>
          ELSE /\ beforeEach # <<>>
               /\ beforeEach' = beforeEach \o nonStepStack
               /\ UNCHANGED <<testBody, afterEach>>]_vars

\* C8 witness: a return with only beforeEach populated, which ends with the
\* two events that were pending after the loop.
C8_Witness ==
  /\ pc = "done"
  /\ Len(nonStepStack) = 2
  /\ testBody = <<>>
  /\ afterEach = <<>>
  /\ EndsWith(beforeEach, nonStepStack)

Matching(anns, id) == {k \in DOMAIN anns : anns[k].message.id = id}

FirstTimeOr(anns, id, dflt) ==
  IF Matching(anns, id) = {} THEN dflt ELSE anns[SetMin(Matching(anns, id))].time

\* The resolved start and the provisional end of a step, as section 4.1
\* of the specification states them.
ResolvedStart(s) == FirstTimeOr(annotationsStart, s.id, startTime + s.relativeStartTime)

ProvisionalEnd(s) ==
  FirstTimeOr(annotationsEnd, s.id,
              ResolvedStart(s) + (IF s.duration = 0 THEN 1 ELSE s.duration))

\* C9: a step named assert is stored as one instant of duration 1: with an
\* error, its end is the provisional end minus one and its start equals its
\* end; without, its start is the resolved start and its end equals its start.
C9_AssertIsOneInstant ==
  \A b \in Buckets :
    \A k \in DOMAIN b :
      IsStep(b[k]) /\ b[k].event.name = "assert" =>
        LET ev == b[k].event
            s == steps[ev.index + 1]
        IN /\ ev.duration = 1
           /\ IF s.error
                 THEN /\ ev.absoluteEndTime = ProvisionalEnd(s) - 1
                      /\ ev.absoluteStartTime = ev.absoluteEndTime
                 ELSE /\ ev.absoluteStartTime = ResolvedStart(s)
                      /\ ev.absoluteEndTime = ev.absoluteStartTime

\* C9 witness: a bucket holds a failed assert whose start and end annotations
\* are both matched, the end annotation not one past the start annotation.
C9_Witness ==
  \E k \in DOMAIN AllBuckets :
    /\ IsStep(AllBuckets[k])
    /\ AllBuckets[k].event.name = "assert"
    /\ AllBuckets[k].event.error
    /\ Matching(annotationsStart, AllBuckets[k].event.id) # {}
    /\ Matching(annotationsEnd, AllBuckets[k].event.id) # {}
    /\ AllBuckets[k].event.absoluteEndTime # ResolvedStart(steps[AllBuckets[k].event.index + 1])

\* C10 as claimed: of two sorted steps with different hooks, the comparator
\* puts a beforeEach step first and an afterEach step last, in whichever
\* order the two are passed, and never answers both orders with the same
\* non-zero sign.
C10_Original ==
  pc # "sort" =>
    \A a, b \in Range(allEvents) :
      IsStep(a) /\ IsStep(b) /\ a.event.hook # b.event.hook =>
        /\ a.event.hook = "beforeEach" => Compare(a, b) < 0 /\ Compare(b, a) > 0
        /\ a.event.hook = "afterEach" => Compare(a, b) > 0 /\ Compare(b, a) < 0
        /\ ~(Compare(a, b) < 0 /\ Compare(b, a) < 0)
        /\ ~(Compare(a, b) > 0 /\ Compare(b, a) > 0)

\* The positions of the sorted sequence the walk has already processed.
Walked == 1..(idx - 1)

StepWalkedBefore(j) == \E i \in 1..(j - 1) : IsStep(allEvents[i])

Held(e) == e \in Range(AllBuckets) \/ e \in Range(nonStepStack)

\* C11: during the walk and at the return, a non-step event already reached
\* is dropped (in no bucket and not pending) exactly when no step stood
\* before it in the sorted sequence; once a step has been processed the
\* current bucket is non-empty, and until then it is empty and nothing is
\* pending.
C11_DroppedOnlyBeforeFirstStep ==
  pc # "sort" =>
    /\ StepWalkedBefore(idx) <=> Bucket(currentStack) # <<>>
    /\ ~StepWalkedBefore(idx) => nonStepStack = <<>>
    /\ \A j \in Walked :
         IsNonStep(allEvents[j]) => (Held(allEvents[j]) <=> StepWalkedBefore(j))

\* C11 witness: in the middle of the walk one non-step event reached before
\* the first step has been dropped and a later one is pending.
C11_Witness ==
  /\ pc = "loop"
  /\ nonStepStack # <<>>
  /\ \E j \in Walked :
       IsNonStep(allEvents[j]) /\ ~StepWalkedBefore(j) /\ ~Held(allEvents[j])
  /\ \E j \in Walked :
       IsNonStep(allEvents[j]) /\ StepWalkedBefore(j)
         /\ allEvents[j] \in Range(nonStepStack)

====
